---- MODULE Spec2Model ----
(***************************************************************************)
(* Model of the Airbyte Docker runner, server/airbyte/runner.go.           *)
(*                                                                         *)
(* One Runner is used by one controlling goroutine ("main"), which calls   *)
(* Spec, Check, Discover, Read and Close one after another, and by a       *)
(* second caller goroutine ("ext") that may call Close at any moment.      *)
(* run() starts three goroutines: the deadline watchdog ("wd"), the stdout *)
(* drain ("out") and the stderr drain ("err").  Every goroutine has a      *)
(* program counter; Close() is modelled step by step for each goroutine    *)
(* that executes it, because its steps are not atomic in the code.         *)
(***************************************************************************)
EXTENDS Naturals, Sequences, FiniteSets, TLC

\* ------------------------------------------------------------------ bounds
\* Number of operations the controlling goroutine invokes on the Runner.
MaxCalls == 2
\* Number of Close() calls issued by the second caller goroutine.
MaxExtCloses == 1
\* Number of lines the connector prints on stdout when the Runner is shared
\* by the two callers.
MaxLines == 1
\* Number of lines the connector prints on stdout when the Runner serves one
\* operation of one caller.
MaxOutput == 2

\* --------------------------------------------------------------- constants
connectionStatusSucceed == "SUCCEEDED"
connectionStatusFailed == "FAILED"

\* NewRunner, runner.go 42-52: r.identifier, given by the caller or generated.
identifier == "runner-1"
\* taskCloser.TaskID() of a Read: the caller's task, which may or may not have
\* been given to NewRunner as the identifier.
TaskIDs == {identifier, "task-1"}

Threads == {"main", "wd", "out", "err", "ext"}
Closers == {"main", "wd", "out", "ext"}
Ops == {"Spec", "Check", "Discover", "Read", "Close"}
RunOps == {"Spec", "Check", "Discover", "Read"}
ConfigOps == {"Check", "Discover"}


\* ------------------------------------------------------------ error values
\* An error value is its identity (kind) and its text, a sequence of tokens.
\* The sentinels ErrNotReady and ErrAirbyteAlreadyTerminated are compared by
\* identity in the code (err == runner.ErrNotReady).
ErrNil == [kind |-> "nil", text |-> <<>>]
ErrNotReady == [kind |-> "NotReady", text |-> <<"not ready">>]
ErrAirbyteAlreadyTerminated == [kind |-> "AlreadyTerminated", text |-> <<"already terminated">>]
ErrProcessDone == [kind |-> "kill", text |-> <<"os: process already finished">>]
ErrStart == [kind |-> "start", text |-> <<"exec: start failed">>]
ErrExit(code) == [kind |-> "exit", text |-> <<"exit status", code>>]
NewError(text) == [kind |-> "new", text |-> text]
\* A Go panic that leaves the function: not a return value.
Panic(what) == [kind |-> "panic", text |-> <<what>>]
NoErr == [kind |-> "none", text |-> <<>>]

\* ---------------------------------------------------------- protocol lines
Line(type, status, message) == [type |-> type, status |-> status, message |-> message]
LogLine == Line("LOG", "", "")
StatusLines == { Line("CONNECTION_STATUS", connectionStatusSucceed, "ok"),
                 Line("CONNECTION_STATUS", connectionStatusFailed, "bad creds"),
                 Line("CONNECTION_STATUS", "PENDING", "wait") }
StdoutLines(o) == CASE o = "Spec" -> {LogLine, Line("SPEC", "", "")}
                    [] o = "Check" -> {LogLine} \cup StatusLines
                    [] o = "Discover" -> {LogLine, Line("CATALOG", "", "")}
                    [] OTHER -> {Line("RECORD", "", ""), Line("MALFORMED", "", "")}
DesiredRowType(o) == CASE o = "Spec" -> "SPEC"
                       [] o = "Check" -> "CONNECTION_STATUS"
                       [] o = "Discover" -> "CATALOG"
                       [] OTHER -> "RECORD"
LineText(l) == <<l.type, l.status, l.message>>
NoRow == Line("", "", "")

VARIABLES
  pc,          \* program counter of every goroutine
  closed,      \* r.closed is closed
  command,     \* r.command: "nil" or "set"
  handle,      \* r.command.Process is not nil (Start succeeded)
  proc,        \* the connector process: "none", "running", "exited"
  exitCode,    \* "none", "ok", "fail", "killed"
  waited,      \* command.Wait() has collected the exit
  tick,        \* the watchdog's ticker has a tick pending
  cl,          \* per goroutine: its current Close() call [from, late, res]
  parser,      \* the stdout parser: [row, found, output]
  seen,        \* lines read from stdout so far
  parsingErr,  \* run()'s parsingErr
  errOut,      \* what the stderr handler copied
  runErr,      \* the error run() returns
  taskClosed,  \* taskCloser.CloseWithError calls: the sequence of fatal flags
  call,        \* the controlling goroutine's current call
  res,         \* result of the controlling goroutine's last completed call
  callsLeft,
  extLeft,
  outLimit,    \* lines the connector prints on stdout at most
  hist         \* history: what has happened to the Runner so far

vars == <<pc, closed, command, handle, proc, exitCode, waited, tick, cl,
          parser, seen, parsingErr, errOut, runErr,
          taskClosed, call, res, callsLeft, extLeft, outLimit, hist>>

\* What is recorded of a call: the operation, whether a Close() had completed
\* and whether a process had been spawned on the Runner when it was invoked,
\* what it has done so far, and the --name argument of its container.
NoCall == [op |-> "none", afterClose |-> FALSE, afterSpawn |-> FALSE,
           spawned |-> FALSE, wd |-> FALSE, notPulled |-> FALSE,
           pastChecks |-> FALSE, dir |-> "none", name |-> ""]
\* No Close() in progress; "late" says that a Close() had already completed on
\* the Runner when this one was invoked.
NoFrame == [from |-> "none", late |-> FALSE, res |-> NoErr]
NoParser == [row |-> NoRow, found |-> FALSE, output |-> <<>>]

\* NewRunner, runner.go 42-52: closed is an open channel, command is nil.  The
\* callers have calls operations and closes concurrent Close() calls to make,
\* and the connector prints at most lines lines on stdout.
InitWith(calls, closes, lines) ==
  /\ pc = [t \in Threads |-> IF t \in {"main", "ext"} THEN "idle" ELSE "off"]
  /\ closed = FALSE
  /\ command = "nil"
  /\ handle = FALSE
  /\ proc = "none"
  /\ exitCode = "none"
  /\ waited = FALSE
  /\ tick = FALSE
  /\ cl = [t \in Closers |-> NoFrame]
  /\ parser = NoParser
  /\ seen = <<>>
  /\ parsingErr = ErrNil
  /\ errOut = <<>>
  /\ runErr = ErrNil
  /\ taskClosed = <<>>
  /\ call = NoCall
  /\ res = NoErr
  /\ callsLeft = calls
  /\ extLeft = closes
  /\ outLimit = lines
  /\ hist = [closeDone |-> FALSE, spawns |-> 0, stops |-> 0, kills |-> 0,
             timeouts |-> 0, stopName |-> "", passed |-> {}, faults |-> {}]

Init == InitWith(MaxCalls, MaxExtCloses, MaxLines)

Goto(t, l) == pc' = [pc EXCEPT ![t] = l]

\* ------------------------------------------------------------------ Close
\* r.terminated(), runner.go 207-214: a non-blocking receive on r.closed.
terminated == closed

\* A goroutine enters Close(): remember where from, and whether a Close() had
\* already completed on this Runner when it was invoked.
EnterClose(t, from) ==
  /\ Goto(t, "close_check")
  /\ cl' = [cl EXCEPT ![t] = [from |-> from, late |-> hist.closeDone, res |-> NoErr]]

LeaveClose(t, r) ==
  /\ Goto(t, "close_ret")
  /\ cl' = [cl EXCEPT ![t].res = r]

\* Mutant of CloseCheck: Close() without its terminated() check.
CloseCheckSkipped(t) ==
  /\ pc[t] = "close_check"
  /\ Goto(t, "close_flag")
  /\ hist' = [hist EXCEPT !.passed = @ \cup {t}]
  /\ UNCHANGED <<closed, command, handle, proc, exitCode, waited, tick, cl,
                 parser, seen, parsingErr, errOut, runErr, taskClosed,
                 call, res, callsLeft, extLeft, outLimit>>

\* runner.go 196-198: if r.terminated() { return ErrAirbyteAlreadyTerminated }
CloseCheck(t) ==
  /\ pc[t] = "close_check"
  /\ IF terminated
       THEN /\ LeaveClose(t, ErrAirbyteAlreadyTerminated)
            /\ hist' = [hist EXCEPT !.closeDone = TRUE]
       ELSE /\ Goto(t, "close_flag")
            /\ hist' = [hist EXCEPT !.passed = @ \cup {t}]
            /\ UNCHANGED cl
  /\ UNCHANGED <<closed, command, handle, proc, exitCode, waited, tick,
                 parser, seen, parsingErr, errOut, runErr, taskClosed,
                 call, res, callsLeft, extLeft, outLimit>>

\* Mutant of CloseFlag: Close() that leaves r.closed open.
CloseFlagLeftOpen(t) ==
  /\ pc[t] = "close_flag"
  /\ Goto(t, "close_kill")
  /\ UNCHANGED <<closed, command, handle, proc, exitCode, waited, tick, cl,
                 parser, seen, parsingErr, errOut, runErr, taskClosed,
                 call, res, callsLeft, extLeft, outLimit, hist>>

\* runner.go 200: close(r.closed); closing a closed channel panics.
CloseFlag(t) ==
  /\ pc[t] = "close_flag"
  /\ IF closed
       THEN /\ LeaveClose(t, Panic("close of closed channel"))
            /\ hist' = [hist EXCEPT !.faults = @ \cup {<<t, "close of closed channel">>}]
            /\ UNCHANGED closed
       ELSE /\ closed' = TRUE
            /\ Goto(t, "close_kill")
            /\ UNCHANGED <<cl, hist>>
  /\ UNCHANGED <<command, handle, proc, exitCode, waited, tick, parser,
                 seen, parsingErr, errOut, runErr, taskClosed, call,
                 res, callsLeft, extLeft, outLimit>>

\* runner.go 202-204: start "docker stop <identifier>", then
\* r.command.Process.Kill().  r.command is nil before run() assigns it and
\* r.command.Process is nil until Start() succeeds: dereferencing either
\* panics.  Kill() on a process whose exit was collected returns an error.
CloseKill(t) ==
  /\ pc[t] = "close_kill"
  /\ IF command = "nil" \/ ~handle
       THEN /\ LeaveClose(t, Panic("nil pointer dereference"))
            /\ hist' = [hist EXCEPT !.stops = @ + 1, !.stopName = identifier,
                                    !.faults = @ \cup {<<t, "nil pointer dereference">>}]
            /\ UNCHANGED <<proc, exitCode>>
       ELSE /\ LeaveClose(t, IF waited THEN ErrProcessDone ELSE ErrNil)
            /\ hist' = [hist EXCEPT !.stops = @ + 1, !.stopName = identifier,
                                    !.kills = @ + 1,
                                    !.closeDone = TRUE]
            /\ IF proc = "running"
                 THEN proc' = "exited" /\ exitCode' = "killed"
                 ELSE UNCHANGED <<proc, exitCode>>
  /\ UNCHANGED <<closed, command, handle, waited, tick, parser, seen,
                 parsingErr, errOut, runErr, taskClosed, call, res,
                 callsLeft, extLeft, outLimit>>

\* ------------------------------------------------- the second caller: Close
\* A caller-initiated Close() from another goroutine than the one in run().
ExtClose ==
  /\ pc["ext"] = "idle"
  /\ extLeft > 0
  /\ extLeft' = extLeft - 1
  /\ EnterClose("ext", "caller")
  /\ UNCHANGED <<closed, command, handle, proc, exitCode, waited, tick,
                 parser, seen, parsingErr, errOut, runErr, taskClosed,
                 call, res, callsLeft, outLimit, hist>>

ExtCloseReturn ==
  /\ pc["ext"] = "close_ret"
  /\ Goto("ext", IF cl["ext"].res.kind = "panic" THEN "panicked" ELSE "idle")
  /\ cl' = [cl EXCEPT !["ext"] = NoFrame]
  /\ UNCHANGED <<closed, command, handle, proc, exitCode, waited, tick,
                 parser, seen, parsingErr, errOut, runErr, taskClosed,
                 call, res, callsLeft, extLeft, outLimit, hist>>

\* ------------------------------------------------------------ the watchdog
\* Mutant of Tick: a tick that reaches the watchdog although r.closed was
\* closed before it.
TickAfterClosed ==
  /\ pc["wd"] = "select"
  /\ ~tick
  /\ tick' = TRUE
  /\ UNCHANGED <<pc, closed, command, handle, proc, exitCode, waited, cl,
                 parser, seen, parsingErr, errOut, runErr, taskClosed,
                 call, res, callsLeft, extLeft, outLimit, hist>>

\* time.NewTicker(timeout), runner.go 227-232: the deadline elapses (again)
\* while the watchdog is blocked in its select, and wakes it through the
\* ticker case.  A select that r.closed has already woken is not woken again:
\* the goroutine leaves through the first case that became ready.
Tick ==
  /\ pc["wd"] = "select"
  /\ ~tick
  /\ ~closed
  /\ tick' = TRUE
  /\ UNCHANGED <<pc, closed, command, handle, proc, exitCode, waited, cl,
                 parser, seen, parsingErr, errOut, runErr, taskClosed,
                 call, res, callsLeft, extLeft, outLimit, hist>>

\* runner.go 230-231: case <-r.closed: return, unless the ticker has woken
\* the select first.  Nobody reads the ticker again.
WatchdogClosed ==
  /\ pc["wd"] = "select"
  /\ closed
  /\ ~tick
  /\ Goto("wd", "done")
  /\ UNCHANGED <<closed, command, handle, proc, exitCode, waited, tick, cl,
                 parser, seen, parsingErr, errOut, runErr, taskClosed,
                 call, res, callsLeft, extLeft, outLimit, hist>>

\* runner.go 232-234: case <-ticker.C: log the timeout and call r.Close()
WatchdogTimeout ==
  /\ pc["wd"] = "select"
  /\ tick
  /\ tick' = FALSE
  /\ hist' = [hist EXCEPT !.timeouts = @ + 1]
  /\ EnterClose("wd", "timeout")
  /\ UNCHANGED <<closed, command, handle, proc, exitCode, waited, parser,
                 seen, parsingErr, errOut, runErr, taskClosed, call,
                 res, callsLeft, extLeft, outLimit>>

\* runner.go 234-239: the result of Close() is only logged; the loop goes on.
\* A panic inside Close() ends the goroutine (safego.Run recovers it).
WatchdogCloseReturn ==
  /\ pc["wd"] = "close_ret"
  /\ Goto("wd", IF cl["wd"].res.kind = "panic" THEN "panicked" ELSE "select")
  /\ cl' = [cl EXCEPT !["wd"] = NoFrame]
  /\ UNCHANGED <<closed, command, handle, proc, exitCode, waited, tick,
                 parser, seen, parsingErr, errOut, runErr, taskClosed,
                 call, res, callsLeft, extLeft, outLimit, hist>>

\* ------------------------------------------------------------- the process
\* The connector exits on its own, with a zero or a non-zero status.
ProcessExit ==
  /\ proc = "running"
  /\ proc' = "exited"
  /\ \E code \in {"ok", "fail"} : exitCode' = code
  /\ UNCHANGED <<pc, closed, command, handle, waited, tick, cl, parser,
                 seen, parsingErr, errOut, runErr, taskClosed, call,
                 res, callsLeft, extLeft, outLimit, hist>>

\* ------------------------------------------------------ the stdout parsers
\* synchronousParser.parse, one line: a line of the desired type is decoded
\* into the result slot (the last one wins); every line is kept in the
\* diagnostic buffer.
SyncParseLine(p, l, desired) ==
  [row |-> IF l.type = desired THEN l ELSE p.row,
   found |-> p.found \/ l.type = desired,
   output |-> p.output \o LineText(l)]

\* synchronousParser.parse, the loop over the lines of the stream.
RECURSIVE SyncParseLines(_, _, _)
SyncParseLines(p, ls, desired) ==
  IF ls = <<>>
    THEN p
    ELSE SyncParseLines(SyncParseLine(p, Head(ls), desired), Tail(ls), desired)

\* synchronousParser.parse at the end of the stream: an error when no line of
\* the desired type was seen.
SyncParseEnd(p) ==
  IF p.found THEN ErrNil ELSE NewError(<<"row of the desired type not found">>)

\* The streams of at most n lines over the lines in S.
Streams(S, n) == UNION { [1..k -> S] : k \in 0..n }

\* asynchronousParser.parse: a malformed line aborts the read.
ErrParse == NewError(<<"malformed line">>)

\* Instance.BuildMsg(prefix, output, errWriter, err): the diagnostic message.
BuildMsg(prefix, output, errWriter, err) ==
  <<prefix>> \o output \o errWriter \o err.text

\* ------------------------------------------------- results of the operations
\* Spec, runner.go 69-79.
SpecResult(err, p, ew) ==
  IF err # ErrNil
    THEN IF err = ErrNotReady
           THEN err
           ELSE NewError(BuildMsg("Error loading airbyte spec:", p.output, ew, err))
    ELSE ErrNil

\* Mutant of CheckStatus: a switch without its default case, every status
\* other than SUCCEEDED handled as FAILED.
CheckStatusNoDefault(row) ==
  IF row.status = connectionStatusSucceed THEN ErrNil ELSE NewError(<<row.message>>)

\* Check, runner.go 108-115: the switch on the connection status.
CheckStatus(row) ==
  CASE row.status = connectionStatusSucceed -> ErrNil
    [] row.status = connectionStatusFailed -> NewError(<<row.message>>)
    [] OTHER -> NewError(<<"unknown airbyte connection status [", row.status, "]: ",
                           row.message>>)

\* Mutant of CheckResult: the error of run() is ignored.
CheckIgnoresRunError(err, p, ew) == CheckStatus(p.row)

\* Mutant of CheckResult: ErrNotReady is wrapped like every other error.
CheckResultWrapsNotReady(err, p, ew) ==
  IF err # ErrNil
    THEN NewError(BuildMsg("Error executing airbyte check:", p.output, ew, err))
    ELSE CheckStatus(p.row)

\* Check, runner.go 98-116.
CheckResult(err, p, ew) ==
  IF err # ErrNil
    THEN IF err = ErrNotReady
           THEN err
           ELSE NewError(BuildMsg("Error executing airbyte check:", p.output, ew, err))
    ELSE CheckStatus(p.row)

\* Discover, runner.go 136-146.
DiscoverResult(err, p, ew) ==
  IF err # ErrNil
    THEN IF err = ErrNotReady
           THEN err
           ELSE NewError(BuildMsg("Error loading airbyte catalog:", p.output, ew, err))
    ELSE ErrNil

\* Read, runner.go 192: the result of run() as it is.
ReadResult(err, p, ew) == err


\* ------------------------------------------- the controlling goroutine: calls
\* A call starts with fresh locals (resultParser, errWriter, parsingErr).
BeginCall(o, name) ==
  /\ pc["main"] = "idle"
  /\ callsLeft > 0
  /\ callsLeft' = callsLeft - 1
  /\ call' = [NoCall EXCEPT !.op = o, !.afterClose = hist.closeDone,
                            !.afterSpawn = hist.spawns > 0, !.name = name]
  /\ res' = NoErr
  /\ runErr' = ErrNil
  /\ parser' = NoParser
  /\ seen' = <<>>
  /\ parsingErr' = ErrNil
  /\ errOut' = <<>>

\* Spec(), runner.go 64-68: straight into run(), with --name r.identifier.
RunnerSpec ==
  /\ BeginCall("Spec", identifier)
  /\ Goto("main", "run_terminated")
  /\ UNCHANGED <<closed, command, handle, proc, exitCode, waited, tick, cl,
                 taskClosed, extLeft, outLimit, hist>>

\* Check(), runner.go 82-86: saveConfig comes first.
RunnerCheck ==
  /\ BeginCall("Check", identifier)
  /\ Goto("main", "save_config")
  /\ UNCHANGED <<closed, command, handle, proc, exitCode, waited, tick, cl,
                 taskClosed, extLeft, outLimit, hist>>

\* Discover(), runner.go 119-124: saveConfig comes first.
RunnerDiscover ==
  /\ BeginCall("Discover", identifier)
  /\ Goto("main", "save_config")
  /\ UNCHANGED <<closed, command, handle, proc, exitCode, waited, tick, cl,
                 taskClosed, extLeft, outLimit, hist>>

\* Read(), runner.go 149-192: builds the handler and the arguments, with
\* --name taskCloser.TaskID() (runner.go 185), then run().
RunnerRead ==
  /\ \E id \in TaskIDs : BeginCall("Read", id)
  /\ Goto("main", "run_terminated")
  /\ UNCHANGED <<closed, command, handle, proc, exitCode, waited, tick, cl,
                 taskClosed, extLeft, outLimit, hist>>

\* Close() called by the controlling goroutine as an operation of its own.
RunnerClose ==
  /\ BeginCall("Close", "")
  /\ EnterClose("main", "caller")
  /\ UNCHANGED <<closed, command, handle, proc, exitCode, waited, tick,
                 taskClosed, extLeft, outLimit, hist>>

CloseReturn ==
  /\ pc["main"] = "close_ret"
  /\ cl["main"].from = "caller"
  /\ res' = cl["main"].res
  /\ Goto("main", IF cl["main"].res.kind = "panic" THEN "panicked" ELSE "idle")
  /\ cl' = [cl EXCEPT !["main"] = NoFrame]
  /\ UNCHANGED <<closed, command, handle, proc, exitCode, waited, tick,
                 parser, seen, parsingErr, errOut, runErr, taskClosed,
                 call, callsLeft, extLeft, outLimit, hist>>

\* saveConfig, runner.go 301-318: EnsureDir creates the directory, then
\* ParseJSONAsFile writes the file; either may fail, and the caller returns
\* the error before its deferred RemoveAll is registered (runner.go 86-89).
saveConfig ==
  /\ pc["main"] = "save_config"
  /\ \E outcome \in {"ok", "mkdir failed", "write failed"} :
       CASE outcome = "ok" ->
              /\ call' = [call EXCEPT !.dir = "exists"]
              /\ Goto("main", "run_terminated")
              /\ UNCHANGED res
         [] outcome = "mkdir failed" ->
              /\ res' = NewError(<<"Error creating airbyte generated config dir">>)
              /\ Goto("main", "idle")
              /\ UNCHANGED call
         [] OTHER ->
              /\ call' = [call EXCEPT !.dir = "exists"]
              /\ res' = NewError(<<"Error writing airbyte config">>)
              /\ Goto("main", "idle")
  /\ UNCHANGED <<closed, command, handle, proc, exitCode, waited, tick, cl,
                 parser, seen, parsingErr, errOut, runErr, taskClosed,
                 callsLeft, extLeft, outLimit, hist>>

\* ------------------------------------------------------------------- run()
\* Mutant of RunTerminated: run() without its terminated() check.
RunTerminatedSkipped ==
  /\ pc["main"] = "run_terminated"
  /\ Goto("main", "run_pulled")
  /\ UNCHANGED <<closed, command, handle, proc, exitCode, waited, tick, cl,
                 parser, seen, parsingErr, errOut, runErr, taskClosed,
                 call, res, callsLeft, extLeft, outLimit, hist>>

\* runner.go 217-219.
RunTerminated ==
  /\ pc["main"] = "run_terminated"
  /\ IF terminated
       THEN runErr' = ErrAirbyteAlreadyTerminated /\ Goto("main", "op_return")
       ELSE Goto("main", "run_pulled") /\ UNCHANGED runErr
  /\ UNCHANGED <<closed, command, handle, proc, exitCode, waited, tick, cl,
                 parser, seen, parsingErr, errOut, taskClosed, call,
                 res, callsLeft, extLeft, outLimit, hist>>

\* Mutant of RunImagePulled: run() that builds r.command before it asks
\* whether the image is pulled.
RunImagePulledAfterCommand ==
  /\ pc["main"] = "run_pulled"
  /\ command' = "set"
  /\ \E pulled \in BOOLEAN :
       IF ~pulled
         THEN /\ runErr' = ErrNotReady
              /\ call' = [call EXCEPT !.notPulled = TRUE]
              /\ Goto("main", "op_return")
         ELSE /\ Goto("main", "run_watchdog")
              /\ UNCHANGED <<runErr, call>>
  /\ UNCHANGED <<closed, handle, proc, exitCode, waited, tick, cl, parser,
                 seen, parsingErr, errOut, taskClosed, res, callsLeft,
                 extLeft, outLimit, hist>>

\* runner.go 221-223: Instance.IsImagePulled answers for the image tracker.
RunImagePulled ==
  /\ pc["main"] = "run_pulled"
  /\ \E pulled \in BOOLEAN :
       IF ~pulled
         THEN /\ runErr' = ErrNotReady
              /\ call' = [call EXCEPT !.notPulled = TRUE]
              /\ Goto("main", "op_return")
         ELSE /\ Goto("main", "run_watchdog")
              /\ UNCHANGED <<runErr, call>>
  /\ UNCHANGED <<closed, command, handle, proc, exitCode, waited, tick, cl,
                 parser, seen, parsingErr, errOut, taskClosed, res,
                 callsLeft, extLeft, outLimit, hist>>

\* runner.go 226-243: start the watchdog goroutine with its ticker, and defer
\* r.Close().
RunWatchdog ==
  /\ pc["main"] = "run_watchdog"
  /\ pc' = [pc EXCEPT !["main"] = "run_command", !["wd"] = "select"]
  /\ tick' = FALSE
  /\ call' = [call EXCEPT !.wd = TRUE, !.pastChecks = TRUE]
  /\ UNCHANGED <<closed, command, handle, proc, exitCode, waited, cl,
                 parser, seen, parsingErr, errOut, runErr, taskClosed,
                 res, callsLeft, extLeft, outLimit, hist>>

\* runner.go 246-250: r.command = exec.Command(...), whose Process is nil.
RunCommand ==
  /\ pc["main"] = "run_command"
  /\ command' = "set"
  /\ handle' = FALSE
  /\ Goto("main", "run_start")
  /\ UNCHANGED <<closed, proc, exitCode, waited, tick, cl, parser, seen,
                 parsingErr, errOut, runErr, taskClosed, call, res,
                 callsLeft, extLeft, outLimit, hist>>

\* runner.go 252-255: r.command.Start(); on failure run() returns the error
\* through its deferred r.Close().
RunStart ==
  /\ pc["main"] = "run_start"
  /\ \E ok \in BOOLEAN :
       IF ok
         THEN /\ handle' = TRUE
              /\ proc' = "running"
              /\ exitCode' = "none"
              /\ waited' = FALSE
              /\ call' = [call EXCEPT !.spawned = TRUE]
              /\ hist' = [hist EXCEPT !.spawns = @ + 1]
              /\ Goto("main", "run_go")
              /\ UNCHANGED <<runErr, cl>>
         ELSE /\ runErr' = ErrStart
              /\ EnterClose("main", "run")
              /\ UNCHANGED <<handle, proc, exitCode, waited, call, hist>>
  /\ UNCHANGED <<closed, command, tick, parser, seen, parsingErr, errOut,
                 taskClosed, res, callsLeft, extLeft, outLimit>>

\* runner.go 257-273: start the stdout and the stderr goroutines.
RunGo ==
  /\ pc["main"] = "run_go"
  /\ pc' = [pc EXCEPT !["main"] = "run_wgwait", !["out"] = "read", !["err"] = "copy"]
  /\ parser' = NoParser
  /\ seen' = <<>>
  /\ parsingErr' = ErrNil
  /\ errOut' = <<>>
  /\ UNCHANGED <<closed, command, handle, proc, exitCode, waited, tick, cl,
                 runErr, taskClosed, call, res, callsLeft, extLeft,
                 outLimit, hist>>

\* Mutant of RunWgWait: run() without the wait group, going on to
\* r.command.Wait() while the handlers may still be reading.
RunWgWaitNoBarrier ==
  /\ pc["main"] = "run_wgwait"
  /\ IF call.op = "Read"
       THEN UNCHANGED <<seen, parser, parsingErr>>
       ELSE \E ls \in Streams(StdoutLines(call.op), outLimit) :
              /\ seen' = ls
              /\ parser' = SyncParseLines(NoParser, ls, DesiredRowType(call.op))
              /\ parsingErr' = SyncParseEnd(parser')
  /\ \E text \in {<<>>, <<"stderr text">>} : errOut' = text
  /\ Goto("main", "run_wait")
  /\ UNCHANGED <<closed, command, handle, proc, exitCode, waited, tick, cl,
                 runErr, taskClosed, call, res, callsLeft, extLeft,
                 outLimit, hist>>

\* runner.go 275: wg.Wait() returns when both goroutines have called wg.Done().
\* From here run() and its caller see what the two handlers left behind: the
\* lines resultParser.parse went through (Spec, Check, Discover), with the
\* error it returned (runner.go 263), and the text copied from stderr.
RunWgWait ==
  /\ pc["main"] = "run_wgwait"
  /\ pc["out"] \in {"done", "panicked"}
  /\ pc["err"] = "done"
  /\ IF call.op = "Read"
       THEN UNCHANGED <<seen, parser, parsingErr>>
       ELSE \E ls \in Streams(StdoutLines(call.op), outLimit) :
              /\ seen' = ls
              /\ parser' = SyncParseLines(NoParser, ls, DesiredRowType(call.op))
              /\ parsingErr' = SyncParseEnd(parser')
  /\ \E text \in {<<>>, <<"stderr text">>} : errOut' = text
  /\ Goto("main", "run_wait")
  /\ UNCHANGED <<closed, command, handle, proc, exitCode, waited, tick, cl,
                 runErr, taskClosed, call, res, callsLeft, extLeft,
                 outLimit, hist>>

\* Mutant of RunWait: run() that returns the handler's error before the
\* error of r.command.Wait().
RunWaitParsingErrFirst ==
  /\ pc["main"] = "run_wait"
  /\ proc = "exited"
  /\ waited' = TRUE
  /\ runErr' = IF parsingErr # ErrNil THEN parsingErr
               ELSE IF exitCode # "ok" THEN ErrExit(exitCode) ELSE ErrNil
  /\ EnterClose("main", "run")
  /\ UNCHANGED <<closed, command, handle, proc, exitCode, tick, parser,
                 seen, parsingErr, errOut, taskClosed, call, res,
                 callsLeft, extLeft, outLimit, hist>>

\* runner.go 277-286: r.command.Wait() blocks until the process has exited;
\* its error comes first, then the parsing error.  The return runs the
\* deferred r.Close().
RunWait ==
  /\ pc["main"] = "run_wait"
  /\ proc = "exited"
  /\ waited' = TRUE
  /\ runErr' = IF exitCode # "ok" THEN ErrExit(exitCode) ELSE parsingErr
  /\ EnterClose("main", "run")
  /\ UNCHANGED <<closed, command, handle, proc, exitCode, tick, parser,
                 seen, parsingErr, errOut, taskClosed, call, res,
                 callsLeft, extLeft, outLimit, hist>>

\* runner.go 243: the deferred r.Close() has ended; its result is dropped, a
\* panic in it replaces the return of run().
RunDeferredClose ==
  /\ pc["main"] = "close_ret"
  /\ cl["main"].from = "run"
  /\ runErr' = IF cl["main"].res.kind = "panic" THEN cl["main"].res ELSE runErr
  /\ Goto("main", "op_return")
  /\ cl' = [cl EXCEPT !["main"] = NoFrame]
  /\ UNCHANGED <<closed, command, handle, proc, exitCode, waited, tick,
                 parser, seen, parsingErr, errOut, taskClosed, call,
                 res, callsLeft, extLeft, outLimit, hist>>

\* ------------------------------------------------- the operations' returns
\* The deferred os.RemoveAll of Check and Discover (runner.go 90-94, 128-132)
\* runs on a return and on a panic alike; its failure is only logged.
Return(o, result) ==
  /\ pc["main"] = "op_return"
  /\ call.op = o
  /\ res' = IF runErr.kind = "panic" THEN runErr ELSE result
  /\ Goto("main", IF runErr.kind = "panic" THEN "panicked" ELSE "idle")
  /\ IF o \in ConfigOps
       THEN \E removed \in BOOLEAN :
              call' = [call EXCEPT !.dir = IF removed THEN "removed" ELSE "exists"]
       ELSE UNCHANGED call
  /\ UNCHANGED <<closed, command, handle, proc, exitCode, waited, tick, cl,
                 parser, seen, parsingErr, errOut, runErr, taskClosed,
                 callsLeft, extLeft, outLimit, hist>>

SpecReturn == Return("Spec", SpecResult(runErr, parser, errOut))

CheckReturn == Return("Check", CheckResult(runErr, parser, errOut))

DiscoverReturn == Return("Discover", DiscoverResult(runErr, parser, errOut))

ReadReturn == Return("Read", ReadResult(runErr, parser, errOut))

\* ------------------------------------------------------- the stdout goroutine
\* The handler reads stdout until the stream ends, which is when the process
\* has exited; then the goroutine calls wg.Done() (runner.go 261-264).  What
\* resultParser.parse read is local to the goroutine; run() sees it after
\* wg.Wait(), see RunWgWait.
StdoutEnd ==
  /\ pc["out"] = "read"
  /\ proc = "exited"
  /\ Goto("out", "done")
  /\ UNCHANGED <<closed, command, handle, proc, exitCode, waited, tick, cl,
                 parser, seen, parsingErr, errOut, runErr, taskClosed,
                 call, res, callsLeft, extLeft, outLimit, hist>>

\* Read's stdoutHandler, runner.go 170-173: asyncParser.parse fails on a
\* malformed line; then CloseWithError(msg, false) and r.Close().
ReadLine ==
  /\ pc["out"] = "read"
  /\ call.op = "Read"
  /\ proc = "running"
  /\ seen' = <<Line("MALFORMED", "", "")>>
  /\ taskClosed' = Append(taskClosed, FALSE)
  /\ EnterClose("out", "parse error")
  /\ UNCHANGED <<closed, command, handle, proc, exitCode, waited, tick,
                 parser, parsingErr, errOut, runErr, call, res,
                 callsLeft, extLeft, outLimit, hist>>

\* Read's stdoutHandler, runner.go 157-163: a panic while a message is handled
\* is recovered by the deferred function: CloseWithError(msg, true), r.Close().
ReadPanic ==
  /\ pc["out"] = "read"
  /\ call.op = "Read"
  /\ proc = "running"
  /\ seen' = <<Line("RECORD", "", "")>>
  /\ taskClosed' = Append(taskClosed, TRUE)
  /\ EnterClose("out", "recover")
  /\ UNCHANGED <<closed, command, handle, proc, exitCode, waited, tick,
                 parser, parsingErr, errOut, runErr, call, res,
                 callsLeft, extLeft, outLimit, hist>>

\* runner.go 173-178: after r.Close() the handler returns the parse error.  A
\* panic inside that Close() is recovered by the same deferred function
\* (runner.go 157-163), which reports a fatal failure and calls r.Close().
ReadParseErrorClosed ==
  /\ pc["out"] = "close_ret"
  /\ cl["out"].from = "parse error"
  /\ IF cl["out"].res.kind = "panic"
       THEN /\ taskClosed' = Append(taskClosed, TRUE)
            /\ EnterClose("out", "recover")
            /\ UNCHANGED parsingErr
       ELSE /\ parsingErr' = ErrParse
            /\ Goto("out", "done")
            /\ cl' = [cl EXCEPT !["out"] = NoFrame]
            /\ UNCHANGED taskClosed
  /\ UNCHANGED <<closed, command, handle, proc, exitCode, waited, tick,
                 parser, seen, errOut, runErr, call, res, callsLeft,
                 extLeft, outLimit, hist>>

\* runner.go 163-168: after the recovering function's r.Close() the handler
\* returns nil; a panic inside that Close() leaves the handler, the goroutine
\* still calls wg.Done() (runner.go 262) and safego.Run recovers it.
ReadRecoverClosed ==
  /\ pc["out"] = "close_ret"
  /\ cl["out"].from = "recover"
  /\ parsingErr' = ErrNil
  /\ Goto("out", IF cl["out"].res.kind = "panic" THEN "panicked" ELSE "done")
  /\ cl' = [cl EXCEPT !["out"] = NoFrame]
  /\ UNCHANGED <<closed, command, handle, proc, exitCode, waited, tick,
                 parser, seen, errOut, runErr, taskClosed, call, res,
                 callsLeft, extLeft, outLimit, hist>>

\* ------------------------------------------------------- the stderr goroutine
\* copyTo(errWriter), runner.go 268-273 and 289-297: copies stderr until the
\* stream ends, then wg.Done().
StderrCopy ==
  /\ pc["err"] = "copy"
  /\ proc = "exited"
  /\ Goto("err", "done")
  /\ UNCHANGED <<closed, command, handle, proc, exitCode, waited, tick, cl,
                 parser, seen, parsingErr, errOut, runErr, taskClosed,
                 call, res, callsLeft, extLeft, outLimit, hist>>

\* ------------------------------------------------------------ specification
CloseStep == \E t \in Closers : CloseCheck(t) \/ CloseFlag(t) \/ CloseKill(t)

\* The controlling goroutine invokes an operation.
Invoke == RunnerSpec \/ RunnerCheck \/ RunnerDiscover \/ RunnerRead \/ RunnerClose

\* The controlling goroutine's steps inside an operation.
MainStep ==
  \/ CloseReturn
  \/ saveConfig
  \/ RunTerminated \/ RunImagePulled \/ RunWatchdog \/ RunCommand \/ RunStart
  \/ RunGo \/ RunWgWait \/ RunWait \/ RunDeferredClose
  \/ SpecReturn \/ CheckReturn \/ DiscoverReturn \/ ReadReturn

\* The stdout goroutine's steps.
StdoutStep == StdoutEnd \/ ReadLine \/ ReadPanic \/ ReadParseErrorClosed \/ ReadRecoverClosed

\* The watchdog goroutine's steps.
WatchdogStep == WatchdogClosed \/ WatchdogTimeout \/ WatchdogCloseReturn

\* A run against a connector that never exits on its own, with no second
\* caller.
NextHang ==
  \/ Invoke \/ MainStep \/ StdoutStep \/ StderrCopy
  \/ Tick \/ WatchdogStep \/ CloseStep

\* The Runner used by one caller.
NextOne ==
  \/ NextHang
  \/ ProcessExit

Next ==
  \/ NextOne
  \/ ExtClose \/ ExtCloseReturn

Spec == Init /\ [][Next]_vars

\* Fair scheduling: every goroutine that can take a step eventually takes
\* one, and time passes for the ticker.  The callers are not obliged to call.
Fairness ==
  /\ WF_vars(MainStep)
  /\ WF_vars(StdoutStep)
  /\ WF_vars(StderrCopy)
  /\ WF_vars(Tick)
  /\ WF_vars(WatchdogStep)
  /\ \A t \in Closers : WF_vars(CloseCheck(t) \/ CloseFlag(t) \/ CloseKill(t))

\* One operation on a fresh Runner whose connector never exits on its own,
\* under fair scheduling.
HangSpec == InitWith(1, 0, MaxLines) /\ [][NextHang]_vars /\ Fairness

\* One operation of one caller on a fresh Runner, with the longer output.
OneCallSpec == InitWith(1, 0, MaxOutput) /\ [][NextOne]_vars

\* One operation of one caller on a fresh Runner under fair scheduling; the
\* connector may exit on its own or not.
LiveSpec == InitWith(1, 0, MaxLines) /\ [][NextOne]_vars /\ Fairness


\* ================================================================== claims
Returned == pc["main"] = "idle" /\ call.op \in Ops /\ res # NoErr
Failed(e) == e.kind \notin {"nil", "none", "panic"}

\* C1 as stated: an operation invoked after Close() has completed returns
\* the AlreadyTerminated condition and spawns no process.
C1_ReturnsAlreadyTerminated ==
  (Returned /\ call.afterClose) =>
     (res = ErrAirbyteAlreadyTerminated /\ ~call.spawned)

\* C1 amended: an operation invoked after Close() has completed fails and
\* spawns no process and starts no watchdog; Read and Close return
\* ErrAirbyteAlreadyTerminated itself, Spec, Check and Discover return a new
\* error value (the diagnostic message built around it or, for Check and
\* Discover, the error of saveConfig, which runs before run() is reached).
C1_FailsAfterClose ==
  call.afterClose =>
    /\ ~call.spawned /\ ~call.wd
    /\ pc["main"] # "panicked"
    /\ Returned =>
         CASE call.op \in {"Read", "Close"} -> res = ErrAirbyteAlreadyTerminated
           [] OTHER -> res.kind = "new"

C1_Witness ==
  /\ Returned /\ call.afterClose /\ call.op = "Spec"
  /\ res.kind = "new" /\ res # ErrAirbyteAlreadyTerminated /\ ~call.spawned

\* C2 as stated: when the watchdog's Close() runs concurrently with another
\* Close(), only one of them gets past the terminated() check and performs
\* the termination, and no goroutine closes the closed flag a second time.
C2_OneTermination ==
  "wd" \in hist.passed =>
     /\ hist.passed = {"wd"}
     /\ \A t \in Closers : <<t, "close of closed channel">> \notin hist.faults

\* C3: at most one process is ever spawned on a Runner, and an operation
\* invoked after an earlier one has spawned a process and returned fails
\* without spawning.
C3_AtMostOneSpawn ==
  /\ hist.spawns <= 1
  /\ call.afterSpawn => (~call.spawned /\ (Returned => Failed(res)))

C3_Witness ==
  Returned /\ call.afterSpawn /\ call.op = "Read" /\ hist.spawns = 1

\* C4: Close() is idempotent.  The Close() that ends without panic or
\* AlreadyTerminated has stopped the container and killed the process; a
\* Close() invoked after one has completed returns AlreadyTerminated without
\* reaching close(r.closed), the stop or the kill; there is never a second
\* stop or kill.
C4_CloseIdempotent ==
  /\ hist.stops <= 1 /\ hist.kills <= 1
  /\ \A t \in Closers :
       /\ (pc[t] = "close_ret" /\ cl[t].res \in {ErrNil, ErrProcessDone}) =>
            (hist.stops = 1 /\ hist.kills = 1 /\ closed /\ proc = "exited")
       /\ cl[t].late =>
            /\ pc[t] \in {"close_check", "close_ret"}
            /\ pc[t] = "close_ret" => cl[t].res = ErrAirbyteAlreadyTerminated

C4_Witness ==
  /\ hist.kills = 1 /\ hist.stops = 1
  /\ pc["main"] = "close_ret" /\ cl["main"].from = "caller" /\ cl["main"].late
  /\ cl["main"].res = ErrAirbyteAlreadyTerminated

\* C5: when IsImagePulled reports the image as not pulled, the operation
\* returns ErrNotReady itself (Spec, Check, Discover and Read alike), and it
\* has spawned no process and started no watchdog.
C5_NotReady ==
  call.notPulled =>
    /\ ~call.spawned /\ ~call.wd
    /\ pc["wd"] = "off" /\ proc = "none" /\ hist.spawns = 0
    /\ pc["main"] # "panicked"
    /\ Returned => res = ErrNotReady

C5_Witness ==
  Returned /\ call.notPulled /\ call.op = "Check" /\ res = ErrNotReady

\* C6 as stated: a run whose process never exits on its own is terminated by
\* the watchdog and the controlling call eventually returns.
C6_HangingRunReturns ==
  (proc = "running") ~>
     (pc["main"] = "idle" /\ proc = "exited" /\ pc["out"] = "done" /\ pc["err"] = "done")

\* C7 as stated: an operation that got past the terminated() and the
\* IsImagePulled checks ends by returning, never by a panic in its cleanup,
\* and when it has returned r.closed is closed and the stop has been issued.
C7_ClosedOnReturn ==
  (call.pastChecks /\ pc["main"] \in {"idle", "panicked"}) =>
     (pc["main"] = "idle" /\ closed /\ hist.stops >= 1)

\* The CONNECTION_STATUS lines among the lines read.
StatusesIn(ls) == SelectSeq(ls, LAMBDA l : l.type = "CONNECTION_STATUS")
LastStatus(ls) == IF StatusesIn(ls) = <<>> THEN NoRow
                  ELSE StatusesIn(ls)[Len(StatusesIn(ls))]
SucceededObserved(ls) ==
  \E i \in 1..Len(ls) :
     ls[i].type = "CONNECTION_STATUS" /\ ls[i].status = connectionStatusSucceed
\* run() returned no error to Check: the exit was collected with status zero.
ExitCollectedOk == call.spawned /\ waited /\ exitCode = "ok"

\* C8 as stated: Check() returns no error if and only if a CONNECTION_STATUS
\* line with status SUCCEEDED was read from stdout.
C8_NilIffSucceededObserved ==
  (Returned /\ call.op = "Check") => (res = ErrNil <=> SucceededObserved(seen))

\* C8 amended: Check() returns no error if and only if the process exit was
\* collected without error and the last CONNECTION_STATUS line read from
\* stdout has status SUCCEEDED.
C8_NilIffLastSucceededAndExitOk ==
  (Returned /\ call.op = "Check") =>
     (res = ErrNil <=>
        (ExitCollectedOk /\ LastStatus(seen).status = connectionStatusSucceed))

C8_Witness ==
  /\ Returned /\ call.op = "Check" /\ res = ErrNil
  /\ Len(seen) = 2 /\ seen[1].type = "LOG" /\ errOut # <<>>

UnknownStatusError(row) ==
  NewError(<<"unknown airbyte connection status [", row.status, "]: ", row.message>>)

\* C9 as stated: Check() returns an error whose text is the connector's
\* message if and only if the status is FAILED, and the unknown-status error
\* for a status outside SUCCEEDED and FAILED.
C9_ClassifiesStatus ==
  (Returned /\ call.op = "Check" /\ StatusesIn(seen) # <<>>) =>
     LET row == LastStatus(seen) IN
       /\ res.text = <<row.message>> <=> row.status = connectionStatusFailed
       /\ row.status \notin {connectionStatusSucceed, connectionStatusFailed} =>
            res = UnknownStatusError(row)

\* C9 amended: when run() returned no error, Check() classifies the status as
\* stated; when run() returned an error, the result is never the connector's
\* message alone.
C9_ClassifiesStatusWhenRunOk ==
  (Returned /\ call.op = "Check" /\ StatusesIn(seen) # <<>>) =>
     LET row == LastStatus(seen) IN
       /\ res.text = <<row.message>> <=>
            (ExitCollectedOk /\ row.status = connectionStatusFailed)
       /\ (ExitCollectedOk /\
           row.status \notin {connectionStatusSucceed, connectionStatusFailed}) =>
            res = UnknownStatusError(row)

C9_Witness ==
  /\ Returned /\ call.op = "Check" /\ ExitCollectedOk
  /\ LastStatus(seen).status = "PENDING"
  /\ res = UnknownStatusError(LastStatus(seen))

\* C10 as stated: when Check() or Discover() has ended, on whatever path, the
\* configuration directory it created is no longer on disk.
C10_NoConfigDirLeft ==
  (call.op \in ConfigOps /\ pc["main"] \in {"idle", "panicked"}) =>
     call.dir # "exists"

\* The asynchronous parser has reported a parse failure in the current Read.
ParseFailed == call.op = "Read" /\ seen = <<Line("MALFORMED", "", "")>>

\* C11 as stated: after a parse failure in Read the task closer has been
\* notified of a non-fatal failure; by the time the stdout goroutine has
\* finished the Runner is closed and the process has exited or a Close() is
\* at its kill step; and Read returns an error.
C11_ParseFailureClosesRunner ==
  ParseFailed =>
    /\ taskClosed # <<>> /\ taskClosed[1] = FALSE
    /\ pc["out"] \in {"done", "panicked"} =>
         (closed /\ (proc = "exited" \/ \E t \in Closers : pc[t] = "close_kill"))
    /\ Returned => Failed(res)

\* A message handler has panicked while stdout was processed in the current
\* Read.
ReadPanicked == call.op = "Read" /\ seen = <<Line("RECORD", "", "")>>

\* C12 as stated: after a panic raised while stdout is processed in Read the
\* task closer has been notified of a fatal failure, and by the time the
\* stdout goroutine has finished, normally or in a panic of its own, the
\* Runner is closed and the process has exited or a Close() is at its kill
\* step, so that the controlling goroutine can reach its return.
C12_PanicRecovered ==
  ReadPanicked =>
    /\ taskClosed # <<>> /\ taskClosed[1] = TRUE
    /\ pc["out"] \in {"done", "panicked"} =>
         (closed /\ (proc = "exited" \/ \E t \in Closers : pc[t] = "close_kill"))

\* Both drain goroutines of the run have finished.
DrainsDone == pc["out"] \in {"done", "panicked"} /\ pc["err"] = "done"

\* C13: in a call that spawned a process, the controlling goroutine is past
\* r.command.Wait() (in the deferred Close(), returning or returned) only
\* when both drain goroutines have finished and the exit has been collected,
\* and the exit is collected only after both drains have finished.
C13_ReturnsAfterDrainsAndExit ==
  /\ (call.spawned /\ pc["main"] \notin {"run_go", "run_wgwait", "run_wait"}) =>
       (DrainsDone /\ waited /\ proc = "exited")
  /\ (call.spawned /\ pc["main"] = "run_wait") => DrainsDone
  /\ waited => (DrainsDone /\ proc = "exited")

C13_Witness ==
  /\ Returned /\ call.spawned /\ call.op = "Read"
  /\ waited /\ pc["out"] = "done" /\ pc["err"] = "done" /\ exitCode = "ok"

\* The call started the watchdog, the process exited on its own, the call has
\* returned, and the watchdog has seen no deadline elapse: it has reported no
\* timeout and no tick is waiting for it.
CompletedInTime ==
  /\ call.wd /\ call.spawned /\ pc["main"] = "idle"
  /\ exitCode \in {"ok", "fail"}
  /\ hist.timeouts = 0 /\ ~tick

FailedEarly ==
  /\ Returned /\ call.op \in RunOps
  /\ runErr \in {ErrNotReady, ErrAirbyteAlreadyTerminated}

\* A step of the controlling goroutine in a call that has not got past the
\* terminated() and IsImagePulled checks of run().
EarlyStep ==
  /\ pc'["main"] # pc["main"]
  /\ call'.op \in RunOps /\ ~call'.pastChecks

\* The closed flag, r.command, its process and the watchdog are left alone.
FrameKept ==
  /\ closed' = closed /\ command' = command /\ handle' = handle
  /\ proc' = proc /\ pc'["wd"] = pc["wd"]

\* C15 as stated: an operation that fails with NotReady or AlreadyTerminated
\* has changed neither the closed flag nor the command nor the process, has
\* started no watchdog and has created no directory.
C15_ChangesNothing ==
  /\ [](FailedEarly =>
         (~call.wd /\ ~call.spawned /\ ~call.pastChecks /\ call.dir = "none"))
  /\ [][EarlyStep => FrameKept]_vars

\* C15 amended: such an operation has changed neither the closed flag nor the
\* command nor the process and has started no watchdog; Spec and Read have
\* created no directory, Check and Discover have created the configuration
\* directory before run() was reached and their deferred RemoveAll has run.
C15_ChangesOnlyConfigDir ==
  /\ [](FailedEarly =>
         /\ ~call.wd /\ ~call.spawned /\ ~call.pastChecks
         /\ call.op \in ConfigOps => call.dir \in {"removed", "exists"}
         /\ call.op \notin ConfigOps => call.dir = "none")
  /\ [][EarlyStep => FrameKept]_vars

C15_Witness ==
  /\ FailedEarly /\ call.op = "Discover" /\ runErr = ErrAirbyteAlreadyTerminated
  /\ call.dir = "removed" /\ closed /\ command = "nil"

\* C16 as stated: whenever a Close() is at its kill step the Runner holds a
\* command with a started process, and no Close() has dereferenced an absent
\* command or process.
C16_KillHasHandle ==
  \A t \in Closers :
     /\ pc[t] = "close_kill" => (command # "nil" /\ handle)
     /\ <<t, "nil pointer dereference">> \notin hist.faults

\* C17 as stated: when Close() has issued its docker stop on a Runner that
\* spawned a container, the name it stopped is the --name the container was
\* spawned with.
C17_StopTargetsSpawnedName ==
  (hist.stops > 0 /\ call.spawned) => hist.stopName = call.name

\* C18: when run() has collected the exit of the process it spawned and has
\* not panicked, it returns the exit error if there is one and the stdout
\* handler's error only otherwise; so a Read whose handler failed to parse
\* and whose process was killed returns the exit error, not the parse error.
C18_ExitErrorFirst ==
  /\ (call.spawned /\ pc["main"] \in {"op_return", "idle"} /\ runErr.kind # "panic") =>
       /\ exitCode # "ok" => runErr = ErrExit(exitCode)
       /\ (runErr = parsingErr /\ parsingErr # ErrNil) => exitCode = "ok"
  /\ (Returned /\ call.op = "Read" /\ call.spawned) =>
       /\ res = ErrParse => exitCode = "ok"
       /\ (ParseFailed /\ exitCode # "ok") => res = ErrExit(exitCode)

C18_Witness ==
  /\ Returned /\ call.op = "Read" /\ ParseFailed
  /\ parsingErr = ErrParse /\ exitCode = "killed" /\ res = ErrExit("killed")

\* C19 as stated: during one Read, taskCloser.CloseWithError is called at most
\* once.
C19_CloseWithErrorOnce == Len(taskClosed) <= 1

====
